---------------------------- MODULE Spec2Model ----------------------------
(***************************************************************************)
(* Model of src/src/utils/typedData.ts: the typed-data (SNIP-12) encoder.  *)
(*                                                                         *)
(* Representation.  A JavaScript string is a sequence of tokens: a name    *)
(* ("A", "felt", "x") is one token, and each of the characters the code    *)
(* inspects ("*", "(", ")", ",", ":", the double quote) is one token.      *)
(* 'A*' is <<"A", "*">>, '(B,C)' is <<"(", "B", ",", "C", ")">>, the empty *)
(* string is <<>>.  Names never contain one of those characters.           *)
(*                                                                         *)
(* Every value a function returns or throws is a record of one shape,      *)
(* [f, s, l, x]: f is the tag, s a string, l a list of strings, x a list   *)
(* of values of this shape.  A thrown exception is a value with f =        *)
(* "error" that every caller passes on, as the code's callers do.          *)
(***************************************************************************)
EXTENDS Integers, Sequences, FiniteSets, TLC

VARIABLES
    types,      \* the type universe: the `types` argument / typedData.types
    typedData,  \* the rest of the document handed to getMessageHash
    account,    \* the account argument of getMessageHash
    op,         \* the exported function that was called, "none" before
    arg,        \* the arguments of that call
    result,     \* what the call returned or threw
    calls       \* the functions the body of the called function called, in order

vars == <<types, typedData, account, op, arg, result, calls>>

----------------------------------------------------------------------------
(* Bounds of the model *)

\* the engine's call-stack limit, in frames of getDependencies
MaxCallDepth == 8
\* at most this many fields are declared in a universe of the resolver runs
MaxTotalFields == 3
\* at most this many fields are declared in the struct of the encoder runs
MaxStructFields == 2

----------------------------------------------------------------------------
(* Strings, lists and values *)

\* the value undefined where a string is expected (a missing `contains`)
Undefined == <<"undefined">>

ACTIVE == "ACTIVE"
LEGACY == "LEGACY"

Val(f, s, l, x) == [f |-> f, s |-> s, l |-> l, x |-> x]
OkString(s) == Val("ok", s, <<>>, <<>>)
OkList(l) == Val("ok", <<>>, l, <<>>)
Error(kind, detail) == Val("error", <<kind>> \o detail, <<>>, <<>>)
IsError(r) == r.f = "error"

\* RangeError: Maximum call stack size exceeded
StackOverflow == Error("RangeError", <<>>)
TypeError == Error("TypeError", <<>>)

Includes(list, e) == \E i \in 1..Len(list) : list[i] = e

\* a filter that keeps every name, seen before or not
FilterNothing(list, previous) == list

RECURSIVE Filter(_, _)
\* list.filter((d) => !previous.includes(d))
Filter(list, previous) ==
    IF list = <<>> THEN <<>>
    ELSE (IF Includes(previous, Head(list)) THEN <<>> ELSE <<Head(list)>>)
         \o Filter(Tail(list), previous)

RECURSIVE Join(_, _)
\* parts.join(sep), also the string an array turns into in a template (sep ",")
Join(parts, sep) ==
    IF parts = <<>> THEN <<>>
    ELSE IF Len(parts) = 1 THEN parts[1]
    ELSE parts[1] \o <<sep>> \o Join(Tail(parts), sep)

RECURSIVE Split(_)
\* s.split(','): the empty string splits into one empty part
Split(s) ==
    IF \A i \in 1..Len(s) : s[i] # "," THEN <<s>>
    ELSE LET i == CHOOSE j \in 1..Len(s) :
                      s[j] = "," /\ \A k \in 1..(j - 1) : s[k] # ","
         IN <<SubSeq(s, 1, i - 1)>> \o Split(SubSeq(s, i + 1, Len(s)))

\* s.slice(1, -1)
Inner(s) == SubSeq(s, 2, Len(s) - 1)

\* s.match(/^\(.*\)$/)
IsParenthesised(s) == Len(s) >= 2 /\ s[1] = "(" /\ s[Len(s)] = ")"

\* type[type.length - 1] === '*', type.endsWith('*')
EndsWithStar(s) == Len(s) > 0 /\ s[Len(s)] = "*"

\* The names of the model in the order of JavaScript's string comparison
\* (UTF-16 code units), which Array.prototype.sort uses by default.
SortedNames ==
    <<"A", "B", "C", "E", "F", "NftId", "S", "StarkNetDomain", "StarknetDomain",
      "TokenAmount", "u256">>

Rank(name) == CHOOSE i \in 1..Len(SortedNames) : SortedNames[i] = name

\* a < b for two one-token strings
StrLess(a, b) == Rank(a[1]) < Rank(b[1])

RECURSIVE InsertSorted(_, _)
InsertSorted(e, sorted) ==
    IF sorted = <<>> THEN <<e>>
    ELSE IF StrLess(e, Head(sorted)) THEN <<e>> \o sorted
    ELSE <<Head(sorted)>> \o InsertSorted(e, Tail(sorted))

RECURSIVE Sort(_)
\* dependencies.sort()
Sort(list) == IF list = <<>> THEN <<>> ELSE InsertSorted(Head(list), Sort(Tail(list)))

----------------------------------------------------------------------------
(* Type universes: an object is its entries in insertion order *)

Field(name, type, contains) == [name |-> name, type |-> type, contains |-> contains]
Entry(name, fields) == [name |-> name, fields |-> fields]

\* `key in types`, and the truth of types[key]: an empty field list is truthy
Has(universe, key) == \E i \in 1..Len(universe) : <<universe[i].name>> = key

\* types[key] of a declared key
Lookup(universe, key) ==
    universe[CHOOSE i \in 1..Len(universe) : <<universe[i].name>> = key].fields

RECURSIVE Merge(_, _)
\* { ...universe, ...presets }: a preset replaces the declaration of its name
\* in place, the other presets follow
Merge(universe, presets) ==
    IF presets = <<>> THEN universe
    ELSE LET p == Head(presets)
             merged ==
                 IF Has(universe, <<p.name>>)
                 THEN [i \in 1..Len(universe) |->
                          IF universe[i].name = p.name THEN p ELSE universe[i]]
                 ELSE Append(universe, p)
         IN Merge(merged, Tail(presets))

presetTypes ==
    << Entry("u256", << Field("low", <<"u128">>, Undefined),
                        Field("high", <<"u128">>, Undefined) >>),
       Entry("TokenAmount", << Field("token_address", <<"ContractAddress">>, Undefined),
                               Field("amount", <<"u256">>, Undefined) >>),
       Entry("NftId", << Field("collection_address", <<"ContractAddress">>, Undefined),
                         Field("token_id", <<"u256">>, Undefined) >>) >>

\* revisionConfiguration[revision]
revisionConfiguration(revision) ==
    IF revision = ACTIVE
    THEN [domain |-> "StarknetDomain", hashMethod |-> "poseidonOnElements",
          hashMerkleMethod |-> "poseidon", escape |-> TRUE, presetTypes |-> presetTypes]
    ELSE [domain |-> "StarkNetDomain", hashMethod |-> "pedersenOnElements",
          hashMerkleMethod |-> "pedersen", escape |-> FALSE, presetTypes |-> <<>>]

\* revisionConfiguration[revision].escapeTypeString(s)
escapeTypeString(revision, s) ==
    IF revisionConfiguration(revision).escape THEN <<"\"">> \o s \o <<"\"">> ELSE s

----------------------------------------------------------------------------
(* getDependencies *)

\* the name getDependencies looks up: the head of its body
DependencyName(type, contains, revision) ==
    IF EndsWithStar(type) THEN SubSeq(type, 1, Len(type) - 1)
    ELSE IF revision = ACTIVE
         THEN IF type = <<"enum">> THEN contains
              ELSE IF IsParenthesised(type) THEN Inner(type)
              ELSE type
         ELSE type

RECURSIVE GetDependenciesAt(_, _, _, _, _, _)
RECURSIVE ReduceDependencies(_, _, _, _, _, _)
RECURSIVE ReduceStep(_, _, _, _, _, _, _)

\* [type, ...reduced], a throw of the reduce passed on
WithType(t, reduced) == IF IsError(reduced) THEN reduced ELSE OkList(<<t>> \o reduced.l)

\* getDependencies in a frame at `depth` of the call stack.  A missing
\* `contains` takes the parameter's default, the empty string.
GetDependenciesAt(universe, type, dependencies, contains, revision, depth) ==
    IF depth > MaxCallDepth THEN StackOverflow
    ELSE LET t == DependencyName(type,
                                 IF contains = Undefined THEN <<>> ELSE contains,
                                 revision)
         IN IF Includes(dependencies, t) \/ ~Has(universe, t)
            THEN OkList(dependencies)
            ELSE WithType(t, ReduceDependencies(universe, Lookup(universe, t), 1, <<>>,
                                                revision, depth))

\* the reduce over the fields of a type, from field i on, `previous` so far
ReduceDependencies(universe, fields, i, previous, revision, depth) ==
    IF i > Len(fields) THEN OkList(previous)
    ELSE ReduceStep(universe, fields, i, previous, revision, depth,
                    GetDependenciesAt(universe, fields[i].type, previous,
                                      fields[i].contains, revision, depth + 1))

\* one step of the reduce: [...previous, ...found.filter(not in previous)]
ReduceStep(universe, fields, i, previous, revision, depth, found) ==
    IF IsError(found) THEN found
    ELSE ReduceDependencies(universe, fields, i + 1,
                            previous \o Filter(found.l, previous), revision, depth)

getDependencies(universe, type, dependencies, contains, revision) ==
    GetDependenciesAt(universe, type, dependencies, contains, revision, 1)

----------------------------------------------------------------------------
(* encodeType, getTypeHash *)

\* allTypes of encodeType
AllTypes(universe, revision) ==
    IF revision = ACTIVE
    THEN Merge(universe, revisionConfiguration(revision).presetTypes)
    ELSE universe

\* targetType of a field in encodeType
TargetType(t, revision) ==
    IF t.type = <<"enum">> /\ revision = ACTIVE THEN t.contains ELSE t.type

\* `${esc(t.name)}:${typeString}` of a field whose targetType is a string
DependencyElement(t, revision) ==
    LET targetType == TargetType(t, revision)
        typeString ==
            IF IsParenthesised(targetType)
            THEN LET parts == Split(Inner(targetType))
                 IN <<"(">>
                    \o Join([i \in 1..Len(parts) |->
                                IF parts[i] = <<>> THEN parts[i]
                                ELSE escapeTypeString(revision, parts[i])], ",")
                    \o <<")">>
            ELSE escapeTypeString(revision, targetType)
    IN escapeTypeString(revision, <<t.name>>) \o <<":">> \o typeString

\* `${esc(dependency)}(${dependencyElements})`
DependencyBlock(allTypes, dependency, revision) ==
    LET fields == Lookup(allTypes, dependency)
    IN escapeTypeString(revision, dependency) \o <<"(">>
       \o Join([i \in 1..Len(fields) |-> DependencyElement(fields[i], revision)], ",")
       \o <<")">>

RECURSIVE Concat(_)
\* blocks.join('')
Concat(blocks) == IF blocks = <<>> THEN <<>> ELSE Head(blocks) \o Concat(Tail(blocks))

\* the sort applied to the primary type too
NewTypesAllSorted(deps) == Sort(deps)

\* [primary, ...dependencies.sort()], nothing without a primary
NewTypes(deps) == IF deps = <<>> THEN <<>> ELSE <<Head(deps)>> \o Sort(Tail(deps))

\* the map and join of encodeType over newTypes
EncodeNewTypes(allTypes, newTypes, revision) ==
    IF \E i \in 1..Len(newTypes) :
           \E j \in 1..Len(Lookup(allTypes, newTypes[i])) :
               TargetType(Lookup(allTypes, newTypes[i])[j], revision) = Undefined
    THEN TypeError  \* undefined.match
    ELSE OkString(Concat([i \in 1..Len(newTypes) |->
                             DependencyBlock(allTypes, newTypes[i], revision)]))

\* encodeType from the result of its getDependencies call
EncodeDependencies(allTypes, d, revision) ==
    IF IsError(d) THEN d ELSE EncodeNewTypes(allTypes, NewTypes(d.l), revision)

encodeType(universe, type, revision) ==
    EncodeDependencies(AllTypes(universe, revision),
                       getDependencies(AllTypes(universe, revision), type, <<>>,
                                       Undefined, revision),
                       revision)

\* getSelectorFromName, an external hash of a string
getSelectorFromName(s) == Val("selector", s, <<>>, <<>>)

\* getSelectorFromName of an encoded type, a throw passed on
SelectorOf(e) == IF IsError(e) THEN e ELSE getSelectorFromName(e.s)

getTypeHash(universe, type, revision) == SelectorOf(encodeType(universe, type, revision))

----------------------------------------------------------------------------
(* Message data: the JavaScript values of a document *)

\* A value is [k, v, keys, items]: k its kind ("undefined", "null", "string",
\* "number", "boolean", "array", "object"), v the text of a scalar, keys and
\* items the entries of an object in insertion order, items the elements of
\* an array.
Data(k, v, keys, items) == [k |-> k, v |-> v, keys |-> keys, items |-> items]
DUndefined == Data("undefined", <<>>, <<>>, <<>>)
DNull == Data("null", <<>>, <<>>, <<>>)
DString(s) == Data("string", <<s>>, <<>>, <<>>)
DNumber(n) == Data("number", <<n>>, <<>>, <<>>)
DBoolean(b) == Data("boolean", <<b>>, <<>>, <<>>)
DArray(items) == Data("array", <<>>, <<>>, items)
DObject(keys, items) == Data("object", <<>>, keys, items)

IsNullish(d) == d.k \in {"undefined", "null"}

\* data[name] of a value that is neither null nor undefined
Property(d, name) ==
    IF d.k = "object" /\ \E i \in 1..Len(d.keys) : d.keys[i] = name
    THEN d.items[CHOOSE i \in 1..Len(d.keys) : d.keys[i] = name]
    ELSE DUndefined

\* data[index] (index from 0) of a value that is neither null nor undefined
Element(d, index) ==
    IF d.k = "array" /\ index + 1 <= Len(d.items) THEN d.items[index + 1]
    ELSE DUndefined

\* The numeric literals of the model, as written in a document, with the
\* number each denotes and the ranges it lies in.
NumericLiterals == {"-1", "1", "2", "0x2", "2^128"}
Canonical(lit) == IF lit = "0x2" THEN "2" ELSE lit
RANGE_U128 == {"1", "2"}
RANGE_I128 == {"-1", "1", "2"}
RANGE_FELT == {"1", "2", "2^128"}

IsNumeric(d) ==
    \/ d.k = "boolean"
    \/ d.k \in {"string", "number"} /\ d.v[1] \in NumericLiterals

\* the number BigInt(data) denotes, of a numeric value
BigIntOf(d) ==
    IF d.k = "boolean" THEN (IF d.v[1] = "true" THEN "1" ELSE "0")
    ELSE Canonical(d.v[1])

\* a hexadecimal string, by the number it denotes
Hex(n) == Val("hex", <<n>>, <<>>, <<>>)

\* toHex(value): BigInt(value) in base 16, a throw for what BigInt rejects
toHex(d) == IF IsNumeric(d) THEN Hex(BigIntOf(d)) ELSE TypeError

\* encodeShortString(s): the packed text, as a hexadecimal string
encodeShortString(s) == Val("hex", <<"shortString", s>>, <<>>, <<>>)

getHex(d) ==
    IF ~IsError(toHex(d)) THEN toHex(d)
    ELSE IF d.k = "string" THEN encodeShortString(d.v[1])
    ELSE Error("InvalidBigNumberish", <<>>)

\* assertRange(data, type, range) for a numeric text n: *no* error, or the one thrown
assertRange(n, type, range) ==
    IF n \in range THEN OkString(<<>>) ELSE Error("OutOfBounds", type)

\* revisionConfiguration[revision].hashMethod(elements)
hashMethod(revision, elements) ==
    Val(revisionConfiguration(revision).hashMethod, <<>>, <<>>, elements)

\* new MerkleTree(leaves, revisionConfiguration[revision].hashMerkleMethod).root
MerkleRoot(revision, leaves) ==
    Val("merkleRoot", <<revisionConfiguration(revision).hashMerkleMethod>>, <<>>, leaves)

\* a number as an element of a hashed list
NumberElement(i) == Val("number", <<<<"0", "1", "2", "3", "4", "5">>[i + 1]>>, <<>>, <<>>)
\* the empty string as an element of a hashed list
EmptyStringElement == Val("string", <<>>, <<>>, <<>>)

\* byteArrayFromString(s) as [data.length, ...data, pending_word, pending_word_len]
ByteArrayElements(s) ==
    << Val("byteArray.data.length", <<s>>, <<>>, <<>>),
       Val("byteArray.data", <<s>>, <<>>, <<>>),
       Val("byteArray.pending_word", <<s>>, <<>>, <<>>),
       Val("byteArray.pending_word_len", <<s>>, <<>>, <<>>) >>

\* the first thrown value of a list of results, in order
HasError(rs) == \E i \in 1..Len(rs) : IsError(rs[i])
FirstError(rs) == rs[CHOOSE i \in 1..Len(rs) : IsError(rs[i]) /\ \A j \in 1..(i - 1) : ~IsError(rs[j])]

\* what a function returning [type, value] returns
Pair(type, value) == Val("pair", type, <<>>, <<value>>)
\* [1] of such a result, a thrown value passed on
Second(r) == IF IsError(r) THEN r ELSE r.x[1]
Returning(type, value) == IF IsError(value) THEN value ELSE Pair(type, value)

Context(parent, key) == [parent |-> parent, key |-> key]
NoContext == Context(Undefined, Undefined)

----------------------------------------------------------------------------
(* encodeValue, encodeData, getStructHash *)

\* isHex(selector) ? selector : getSelectorFromName(selector)
prepareSelector(d) ==
    IF d.k = "string" /\ d.v[1] = "0x2" THEN Val("string", d.v, <<>>, <<>>)
    ELSE getSelectorFromName(d.v)

\* getMerkleTreeType(types, ctx): the leaf type as an "ok" string, or the throw
getMerkleTreeType(universe, ctx) ==
    IF ctx.parent # Undefined /\ ctx.key # Undefined
    THEN IF ~Has(universe, ctx.parent) THEN TypeError  \* undefined.find
         ELSE LET parentType == Lookup(universe, ctx.parent)
              IN IF \A i \in 1..Len(parentType) : <<parentType[i].name>> # ctx.key
                 THEN TypeError  \* undefined.type
                 ELSE LET merkleType ==
                              parentType[CHOOSE i \in 1..Len(parentType) :
                                  /\ <<parentType[i].name>> = ctx.key
                                  /\ \A j \in 1..(i - 1) : <<parentType[j].name>> # ctx.key]
                      IN IF merkleType.type # <<"merkletree">>
                         THEN Error("NotAMerkleTree", ctx.key)
                         ELSE IF merkleType.contains = Undefined
                         THEN TypeError  \* undefined.endsWith
                         ELSE IF EndsWithStar(merkleType.contains)
                         THEN Error("MerkleTreeOfArray", ctx.key)
                         ELSE OkString(merkleType.contains)
    ELSE OkString(<<"raw">>)

\* the field of the parent type that the enum case reads `contains` from
EnumParentField(parentFields, ctx) == parentFields[1]

RECURSIVE encodeValue(_, _, _, _, _)
RECURSIVE getStructHash(_, _, _, _)
RECURSIVE encodeData(_, _, _, _)
RECURSIVE EncodeFields(_, _, _, _, _, _, _, _)
RECURSIVE EncodeFieldsStep(_, _, _, _, _, _, _, _, _)
RECURSIVE EncodeEnum(_, _, _, _)
RECURSIVE EncodePrimitive(_, _, _, _, _)

\* [type, hashMethod(hashes)], the first throw among the hashes passed on
HashAll(type, revision, hashes) ==
    IF HasError(hashes) THEN FirstError(hashes) ELSE Pair(type, hashMethod(revision, hashes))

\* ['felt', root] of the tree over the leaves, the first throw among them passed on
RootOf(revision, structHashes) ==
    IF HasError(structHashes) THEN FirstError(structHashes)
    ELSE Pair(<<"felt">>, MerkleRoot(revision, structHashes))

\* data.map((entry) => encodeValue(types, type, entry, undefined, revision)[1])
EncodeEach(universe, type, d, revision) ==
    [i \in 1..Len(d.items) |->
        Second(encodeValue(universe, type, d.items[i], NoContext, revision))]

\* ['enum', hashMethod([variantIndex, ...encodedSubtypes])]
HashVariant(revision, variantIndex, encodedSubtypes) ==
    IF HasError(encodedSubtypes) THEN FirstError(encodedSubtypes)
    ELSE Pair(<<"enum">>,
              hashMethod(revision, <<NumberElement(variantIndex)>> \o encodedSubtypes))

\* case 'enum' of encodeValue under the Active revision
EncodeEnum(universe, d, ctx, revision) ==
    IF d.k # "object" \/ d.keys = <<>> THEN TypeError  \* Object.entries(data)[0]
    ELSE IF ~Has(universe, ctx.parent) THEN TypeError  \* types[ctx.parent][0]
    ELSE IF Lookup(universe, ctx.parent) = <<>> THEN TypeError  \* undefined.contains
    ELSE LET variantKey == d.keys[1]
             variantData == d.items[1]
             parentType == EnumParentField(Lookup(universe, ctx.parent), ctx)
         IN IF ~Has(universe, parentType.contains) THEN TypeError  \* undefined.find
            ELSE LET enumType == Lookup(universe, parentType.contains)
                 IN IF \A i \in 1..Len(enumType) : enumType[i].name # variantKey
                    THEN TypeError  \* undefined.type
                    ELSE LET at == CHOOSE i \in 1..Len(enumType) :
                                       /\ enumType[i].name = variantKey
                                       /\ \A j \in 1..(i - 1) : enumType[j].name # variantKey
                             variantType == enumType[at]
                             variantIndex == at - 1
                             subtypes == Split(Inner(variantType.type))
                         IN HashVariant(revision, variantIndex,
                                [i \in 1..Len(subtypes) |->
                                    IF subtypes[i] = <<>> THEN EmptyStringElement
                                    ELSE IF IsNullish(variantData) THEN TypeError
                                    ELSE Second(encodeValue(universe, subtypes[i],
                                                            Element(variantData, i - 1),
                                                            NoContext, revision))])

\* the switch of encodeValue
EncodePrimitive(universe, type, d, ctx, revision) ==
    LET name == IF Len(type) = 1 THEN type[1] ELSE "" IN
    CASE name = "enum" ->
           IF revision = ACTIVE THEN EncodeEnum(universe, d, ctx, revision)
           ELSE Returning(type, getHex(d))
      [] name = "merkletree" ->
           LET merkleTreeType == getMerkleTreeType(universe, ctx)
           IN IF IsError(merkleTreeType) THEN merkleTreeType
              ELSE IF d.k # "array" THEN TypeError  \* data.map
              ELSE RootOf(revision, EncodeEach(universe, merkleTreeType.s, d, revision))
      [] name = "selector" ->
           IF d.k # "string" THEN TypeError ELSE Pair(<<"felt">>, prepareSelector(d))
      [] name = "string" ->
           IF revision = ACTIVE
           THEN IF d.k # "string" THEN TypeError
                ELSE Pair(type, hashMethod(revision, ByteArrayElements(d.v[1])))
           ELSE Returning(type, getHex(d))
      [] name = "i128" ->
           IF revision = ACTIVE
           THEN IF ~IsNumeric(d) THEN TypeError  \* BigInt(data)
                ELSE IF IsError(assertRange(BigIntOf(d), type, RANGE_I128))
                THEN assertRange(BigIntOf(d), type, RANGE_I128)
                ELSE Pair(type, Hex(IF BigIntOf(d) = "-1" THEN "PRIME-1" ELSE BigIntOf(d)))
           ELSE Returning(type, getHex(d))
      [] name \in {"timestamp", "u128"} ->
           IF revision = ACTIVE /\ ~IsNumeric(d) THEN TypeError
           ELSE IF revision = ACTIVE /\ IsError(assertRange(BigIntOf(d), type, RANGE_U128))
           THEN assertRange(BigIntOf(d), type, RANGE_U128)
           ELSE Returning(type, getHex(d))
      [] name \in {"felt", "shortstring"} ->
           IF revision = ACTIVE /\ IsError(getHex(d)) THEN getHex(d)
           ELSE IF revision = ACTIVE /\ IsNumeric(d) /\ BigIntOf(d) = "-1"
           THEN Error("SyntaxError", <<>>)  \* BigInt('0x-1')
           ELSE IF /\ revision = ACTIVE
                   /\ IsNumeric(d)
                   /\ IsError(assertRange(BigIntOf(d), type, RANGE_FELT))
           THEN assertRange(BigIntOf(d), type, RANGE_FELT)
           ELSE Returning(type, getHex(d))
      [] name \in {"ClassHash", "ContractAddress"} ->
           IF revision = ACTIVE /\ ~IsNumeric(d) THEN TypeError
           ELSE IF revision = ACTIVE /\ IsError(assertRange(BigIntOf(d), type, RANGE_FELT))
           THEN assertRange(BigIntOf(d), type, RANGE_FELT)
           ELSE Returning(type, getHex(d))
      [] name = "bool" ->
           IF revision = ACTIVE /\ d.k # "boolean" THEN Error("TypeMismatch", type)
           ELSE Returning(type, getHex(d))
      [] OTHER ->
           IF revision = ACTIVE THEN Error("UnsupportedType", type)
           ELSE Returning(type, getHex(d))

encodeValue(universe, type, d, ctx, revision) ==
    IF Has(universe, type)
    THEN Returning(type, getStructHash(universe, type, d, revision))
    ELSE IF Has(revisionConfiguration(revision).presetTypes, type)
    THEN Returning(type, getStructHash(revisionConfiguration(revision).presetTypes,
                                       type, d, revision))
    ELSE IF EndsWithStar(type)
    THEN IF d.k # "array" THEN TypeError  \* data.map
         ELSE HashAll(type, revision,
                      EncodeEach(universe, SubSeq(type, 1, Len(type) - 1), d, revision))
    ELSE EncodePrimitive(universe, type, d, ctx, revision)

\* targetType of encodeData: the declaration whose fields are encoded
DataTargetType(universe, type, revision) ==
    IF Has(universe, type) THEN Lookup(universe, type)
    ELSE Lookup(revisionConfiguration(revision).presetTypes, type)

\* whether encodeData throws its missing-data error for a field
IsMissing(value, field) ==
    value.k = "undefined" \/ (value.k = "null" /\ field.type # <<"enum">>)

\* the reduce of encodeData from field i on, [ts, vs] so far
EncodeFields(universe, type, fields, i, d, revision, ts, vs) ==
    IF i > Len(fields) THEN Val("ok", <<>>, ts, vs)
    ELSE IF IsNullish(d) THEN TypeError  \* data[field.name]
    ELSE LET field == fields[i]
             value == Property(d, field.name)
         IN IF IsMissing(value, field) THEN Error("MissingField", <<field.name>>)
            ELSE EncodeFieldsStep(universe, type, fields, i, d, revision, ts, vs,
                                  encodeValue(universe, field.type, value,
                                              Context(type, <<field.name>>), revision))

\* one step of that reduce: [[...ts, t], [...vs, encodedValue]]
EncodeFieldsStep(universe, type, fields, i, d, revision, ts, vs, encoded) ==
    IF IsError(encoded) THEN encoded
    ELSE EncodeFields(universe, type, fields, i + 1, d, revision,
                      Append(ts, encoded.s), Append(vs, encoded.x[1]))

\* encodeData from the type hash its reduce starts with
EncodeFrom(universe, type, d, revision, typeHash) ==
    IF IsError(typeHash) THEN typeHash
    ELSE EncodeFields(universe, type, DataTargetType(universe, type, revision),
                      1, d, revision, << <<"felt">> >>, <<typeHash>>)

\* [returnTypes, values] as a value with l = returnTypes and x = values
encodeData(universe, type, d, revision) ==
    IF ~Has(universe, type) /\ ~Has(revisionConfiguration(revision).presetTypes, type)
    THEN TypeError  \* undefined.reduce
    ELSE EncodeFrom(universe, type, d, revision, getTypeHash(universe, type, revision))

\* hashMethod(encodeData(...)[1]), a throw passed on
HashValues(revision, e) == IF IsError(e) THEN e ELSE hashMethod(revision, e.x)

getStructHash(universe, type, d, revision) ==
    HashValues(revision, encodeData(universe, type, d, revision))

----------------------------------------------------------------------------
(* identifyRevision, validateTypedData, getMessageHash *)

\* Revision.ACTIVE and Revision.LEGACY as values of domain.revision: two
\* different non-empty strings
RevisionValue(revision) ==
    DString(IF revision = ACTIVE THEN "Revision.ACTIVE" ELSE "Revision.LEGACY")

\* A document: `types` is the universe when hasTypes, undefined otherwise;
\* primaryType is a string or Undefined; domain and message are values.
Document(universe, doc) ==
    [types |-> universe, hasTypes |-> doc.hasTypes, domain |-> doc.domain,
     primaryType |-> doc.primaryType, message |-> doc.message]

\* the truth of a value
Truthy(d) ==
    /\ ~IsNullish(d)
    /\ d.k \in {"string", "number", "boolean"} => d.v[1] \notin {"", "0", "false"}

\* identifyRevision without the `?? Revision.LEGACY` default of the Legacy test
IdentifyRevisionNoDefault(document) ==
    IF ~document.hasTypes THEN TypeError
    ELSE IF /\ Has(document.types, <<revisionConfiguration(ACTIVE).domain>>)
            /\ IsNullish(document.domain)
    THEN TypeError
    ELSE IF /\ Has(document.types, <<revisionConfiguration(ACTIVE).domain>>)
            /\ Property(document.domain, "revision") = RevisionValue(ACTIVE)
    THEN OkString(<<ACTIVE>>)
    ELSE IF /\ Has(document.types, <<revisionConfiguration(LEGACY).domain>>)
            /\ IsNullish(document.domain)
    THEN TypeError
    ELSE IF /\ Has(document.types, <<revisionConfiguration(LEGACY).domain>>)
            /\ Property(document.domain, "revision") = RevisionValue(LEGACY)
    THEN OkString(<<LEGACY>>)
    ELSE Val("undefined", <<>>, <<>>, <<>>)

\* identifyRevision: "ok" with the revision, "undefined", or the TypeError of
\* `in` on a missing types and of `.revision` on a missing domain
identifyRevision(document) ==
    IF ~document.hasTypes THEN TypeError
    ELSE IF /\ Has(document.types, <<revisionConfiguration(ACTIVE).domain>>)
            /\ IsNullish(document.domain)
    THEN TypeError
    ELSE IF /\ Has(document.types, <<revisionConfiguration(ACTIVE).domain>>)
            /\ Property(document.domain, "revision") = RevisionValue(ACTIVE)
    THEN OkString(<<ACTIVE>>)
    ELSE IF /\ Has(document.types, <<revisionConfiguration(LEGACY).domain>>)
            /\ IsNullish(document.domain)
    THEN TypeError
    ELSE IF /\ Has(document.types, <<revisionConfiguration(LEGACY).domain>>)
            /\ (IF IsNullish(Property(document.domain, "revision"))
                THEN RevisionValue(LEGACY)
                ELSE Property(document.domain, "revision")) = RevisionValue(LEGACY)
    THEN OkString(<<LEGACY>>)
    ELSE Val("undefined", <<>>, <<>>, <<>>)

\* validateTypedData: "true", "false", or what identifyRevision throws
validateTypedData(document) ==
    IF /\ Truthy(document.message)
       /\ document.primaryType \notin {Undefined, <<>>}
       /\ document.hasTypes
    THEN LET revision == identifyRevision(document)
         IN IF IsError(revision) THEN revision
            ELSE Val(IF revision.f = "ok" THEN "true" ELSE "false", <<>>, <<>>, <<>>)
    ELSE Val("false", <<>>, <<>>, <<>>)

StarkNetMessage == encodeShortString("StarkNet Message")

\* the end of getMessageHash with the account and the message hash exchanged
HashMessageSwapped(revision, acc, domainHash, messageHash) ==
    IF IsError(domainHash)
    THEN [result |-> domainHash,
          calls |-> <<"validateTypedData", "identifyRevision", "encodeShortString",
                      "getStructHash">>]
    ELSE IF IsError(messageHash)
    THEN [result |-> messageHash,
          calls |-> <<"validateTypedData", "identifyRevision", "encodeShortString",
                      "getStructHash", "getStructHash">>]
    ELSE [result |-> hashMethod(revision, <<StarkNetMessage, domainHash, messageHash, acc>>),
          calls |-> <<"validateTypedData", "identifyRevision", "encodeShortString",
                      "getStructHash", "getStructHash", "hashMethod">>]

\* the end of getMessageHash, from its two struct hashes
HashMessage(revision, acc, domainHash, messageHash) ==
    IF IsError(domainHash)
    THEN [result |-> domainHash,
          calls |-> <<"validateTypedData", "identifyRevision", "encodeShortString",
                      "getStructHash">>]
    ELSE IF IsError(messageHash)
    THEN [result |-> messageHash,
          calls |-> <<"validateTypedData", "identifyRevision", "encodeShortString",
                      "getStructHash", "getStructHash">>]
    ELSE [result |-> hashMethod(revision, <<StarkNetMessage, domainHash, acc, messageHash>>),
          calls |-> <<"validateTypedData", "identifyRevision", "encodeShortString",
                      "getStructHash", "getStructHash", "hashMethod">>]

\* getMessageHash after validation, under the revision identified
HashDocument(document, acc, revision) ==
    HashMessage(revision, acc,
                getStructHash(document.types, <<revisionConfiguration(revision).domain>>,
                              document.domain, revision),
                getStructHash(document.types, document.primaryType, document.message,
                              revision))

\* getMessageHash from the result of its validateTypedData call
Validated(document, acc, valid) ==
    IF IsError(valid) THEN [result |-> valid, calls |-> <<"validateTypedData">>]
    ELSE IF valid.f = "false"
    THEN [result |-> Error("SchemaMismatch", <<>>), calls |-> <<"validateTypedData">>]
    ELSE HashDocument(document, acc, identifyRevision(document).s[1])

\* getMessageHash: [result, calls], calls being the functions its body called
GetMessageHashRun(document, acc) == Validated(document, acc, validateTypedData(document))

getMessageHash(document, acc) == GetMessageHashRun(document, acc).result

----------------------------------------------------------------------------
(* The calls: what is the same in every run *)

NoArg ==
    [type |-> <<>>, dependencies |-> <<>>, contains |-> Undefined, revision |-> LEGACY,
     data |-> DUndefined, ctx |-> NoContext]
NoResult == Val("none", <<>>, <<>>, <<>>)
NoDocument ==
    [hasTypes |-> TRUE, domain |-> DUndefined, primaryType |-> Undefined,
     message |-> DUndefined]
NoAccount == Val("account", <<>>, <<>>, <<>>)

TypeOK ==
    /\ op \in {"none", "getMessageHash", "identifyRevision", "validateTypedData",
               "getDependencies", "encodeType", "getTypeHash", "encodeValue",
               "encodeData", "getStructHash"}
    /\ op = "none" <=> result = NoResult

----------------------------------------------------------------------------
(* Documents handed to getMessageHash *)

ActiveDomainType ==
    Entry("StarknetDomain", << Field("name", <<"shortstring">>, Undefined),
                               Field("revision", <<"shortstring">>, Undefined) >>)
LegacyDomainType == Entry("StarkNetDomain", << Field("name", <<"felt">>, Undefined) >>)

PrimaryTypes ==
    { Entry("S", <<>>),
      Entry("S", << Field("x", <<"felt">>, Undefined) >>),
      Entry("S", << Field("x", <<"felt">>, Undefined), Field("y", <<"u128">>, Undefined) >>) }

DocumentUniverses ==
    { <<>> } \cup
    { d \o <<p>> : d \in { <<>>, <<ActiveDomainType>>, <<LegacyDomainType>>,
                           <<ActiveDomainType, LegacyDomainType>>,
                           <<LegacyDomainType, ActiveDomainType>> },
                   p \in PrimaryTypes }

Domains ==
    { DUndefined, DObject(<<"name">>, <<DString("dapp")>>) } \cup
    { DObject(<<"name", "revision">>, <<DString("dapp"), r>>) :
        r \in { DNull, RevisionValue(ACTIVE), RevisionValue(LEGACY), DString("9") } }

Messages ==
    { DUndefined, DNull, DObject(<<>>, <<>>),
      DObject(<<"x">>, <<DString("1")>>),
      DObject(<<"x", "y">>, <<DString("abc"), DNumber("2")>>),
      DObject(<<"x", "y">>, <<DString("1"), DString("2^128")>>) }

Accounts == { Val("account", <<"0xa1">>, <<>>, <<>>), Val("account", <<"0xa2">>, <<>>, <<>>) }

Init ==
    /\ typedData \in [hasTypes : BOOLEAN, domain : Domains,
                      primaryType : {Undefined, <<>>, <<"S">>, <<"Z">>},
                      message : Messages]
    /\ types \in (IF typedData.hasTypes THEN DocumentUniverses ELSE { <<>> })
    /\ account \in Accounts
    /\ op = "none"
    /\ arg = NoArg
    /\ result = NoResult
    /\ calls = <<>>

CallGetMessageHash ==
    /\ op = "none"
    /\ op' = "getMessageHash"
    /\ result' = GetMessageHashRun(Document(types, typedData), account).result
    /\ calls' = GetMessageHashRun(Document(types, typedData), account).calls
    /\ UNCHANGED <<types, typedData, account, arg>>

CallIdentifyRevision ==
    /\ op = "none"
    /\ op' = "identifyRevision"
    /\ result' = identifyRevision(Document(types, typedData))
    /\ calls' = <<>>
    /\ UNCHANGED <<types, typedData, account, arg>>

CallValidateTypedData ==
    /\ op = "none"
    /\ op' = "validateTypedData"
    /\ result' = validateTypedData(Document(types, typedData))
    /\ calls' = IF Truthy(typedData.message)
                   /\ typedData.primaryType \notin {Undefined, <<>>}
                   /\ typedData.hasTypes
                THEN <<"identifyRevision">> ELSE <<>>
    /\ UNCHANGED <<types, typedData, account, arg>>

Next == CallGetMessageHash \/ CallIdentifyRevision \/ CallValidateTypedData

Spec == Init /\ [][Next]_vars

----------------------------------------------------------------------------
(* Type universes and queries handed to getDependencies and encodeType *)

\* what a field of the universes refers to: a primitive, A, B, C, an array of
\* B, an enum whose variants C holds
FieldOptions ==
    { [type |-> <<"felt">>, contains |-> Undefined],
      [type |-> <<"A">>, contains |-> Undefined],
      [type |-> <<"B">>, contains |-> Undefined],
      [type |-> <<"C">>, contains |-> Undefined],
      [type |-> <<"B", "*">>, contains |-> Undefined],
      [type |-> <<"enum">>, contains |-> <<"C">>] }

\* the name of the i-th field of a type; declaration order is not alphabetical
FieldNames == <<"to", "from", "amount", "memo", "id">>

Fields(options) ==
    [i \in 1..Len(options) |-> Field(FieldNames[i], options[i].type, options[i].contains)]

\* The universe declaring A, B and C with these fields
ResolverUniverse(a, b, c) ==
    << Entry("A", Fields(a)), Entry("B", Fields(b)), Entry("C", Fields(c)) >>

\* the queried type of a getDependencies call, with the `contains` passed
DependencyQueries ==
    { [type |-> <<"A">>, contains |-> Undefined],
      [type |-> <<"B", "*">>, contains |-> Undefined],
      [type |-> <<"felt">>, contains |-> Undefined],
      [type |-> <<"enum">>, contains |-> <<"C">>],
      [type |-> <<"(", "C", ")">>, contains |-> Undefined] }

\* the initial accumulator of a getDependencies call
Accumulators == { <<>>, << <<"B">>, <<"C">>, <<"C">> >> }

\* the queried type of an encodeType call
TypeQueries ==
    { <<"A">>, <<"C">>, <<"B", "*">>, <<"(", "B", ")">>, <<"felt">>, <<"TokenAmount">> }

\* the queried type of a getTypeHash call
HashQueries == { <<"A">> }

Revisions == {ACTIVE, LEGACY}

\* the universes declaring A, B and C with at most MaxTotalFields fields in all
InitResolver ==
    /\ \E la \in 0..MaxTotalFields :
          \E lb \in 0..(MaxTotalFields - la) :
              \E lc \in 0..(MaxTotalFields - la - lb) :
                  \E a \in [1..la -> FieldOptions], b \in [1..lb -> FieldOptions],
                     c \in [1..lc -> FieldOptions] :
                      types = ResolverUniverse(a, b, c)
    /\ typedData = NoDocument
    /\ account = NoAccount
    /\ op = "none"
    /\ arg = NoArg
    /\ result = NoResult
    /\ calls = <<>>

CallGetDependencies ==
    /\ op = "none"
    /\ \E q \in DependencyQueries, dependencies \in Accumulators, revision \in Revisions :
          /\ arg' = [NoArg EXCEPT !.type = q.type, !.contains = q.contains,
                                  !.dependencies = dependencies, !.revision = revision]
          /\ result' = getDependencies(types, q.type, dependencies, q.contains, revision)
    /\ op' = "getDependencies"
    /\ UNCHANGED <<types, typedData, account, calls>>

CallEncodeType ==
    /\ op = "none"
    /\ \E type \in TypeQueries, revision \in Revisions :
          /\ arg' = [NoArg EXCEPT !.type = type, !.revision = revision]
          /\ result' = encodeType(types, type, revision)
    /\ op' = "encodeType"
    /\ UNCHANGED <<types, typedData, account, calls>>

CallGetTypeHash ==
    /\ op = "none"
    /\ \E type \in HashQueries, revision \in Revisions :
          /\ arg' = [NoArg EXCEPT !.type = type, !.revision = revision]
          /\ result' = getTypeHash(types, type, revision)
    /\ op' = "getTypeHash"
    /\ UNCHANGED <<types, typedData, account, calls>>

NextResolver == CallGetDependencies \/ CallEncodeType \/ CallGetTypeHash

SpecResolver == InitResolver /\ [][NextResolver]_vars

----------------------------------------------------------------------------
(* Structs and messages handed to encodeValue, encodeData and getStructHash *)

\* two variant holders with the same variants in different orders
VariantsE ==
    Entry("E", << Field("Transfer", <<"(", "felt", ")">>, Undefined),
                  Field("None", <<"(", ")">>, Undefined) >>)
VariantsF ==
    Entry("F", << Field("None", <<"(", ")">>, Undefined),
                  Field("Transfer", <<"(", "felt", ")">>, Undefined) >>)

\* a declaration of the preset name u256 with fields of its own
OwnU256 == Entry("u256", << Field("value", <<"felt">>, Undefined) >>)

\* the fields the struct S is declared with
StructFieldOptions ==
    { Field("x", <<"felt">>, Undefined),
      Field("e", <<"enum">>, <<"E">>),
      Field("g", <<"enum">>, <<"F">>),
      Field("u", <<"u256">>, Undefined) }

StructFields ==
    UNION { { fs \in [1..n -> StructFieldOptions] :
                \A i, j \in 1..n : fs[i] = fs[j] => i = j } : n \in 0..MaxStructFields }

EncoderUniverses ==
    { <<Entry("S", fs), VariantsE, VariantsF>> \o own :
        fs \in StructFields, own \in { <<>>, <<OwnU256>> } }

FeltValues == { DUndefined, DNull, DString("1") }
EnumValues ==
    { DUndefined, DNull,
      DObject(<<"Transfer">>, << DArray(<< DString("1") >>) >>),
      DObject(<<"None">>, << DArray(<<>>) >>) }
U256Values ==
    { DUndefined,
      DObject(<<"low", "high">>, << DString("1"), DString("2") >>),
      DObject(<<"value">>, << DString("1") >>) }

\* the values a message holds for a field
ValuesOf(field) ==
    IF field.type = <<"enum">> THEN EnumValues
    ELSE IF field.type = <<"u256">> THEN U256Values
    ELSE FeltValues

\* the messages for a struct of these fields: one value for each
MessagesOf(fields) ==
    { DObject([i \in 1..Len(fields) |-> fields[i].name], vs) :
        vs \in { v \in [1..Len(fields) -> FeltValues \cup EnumValues \cup U256Values] :
                    \A i \in 1..Len(fields) : v[i] \in ValuesOf(fields[i]) } }

\* the struct types encodeData is called for, with the messages of each
EncodedTypes == { <<"S">>, <<"u256">> }
DataOf(universe, type) ==
    IF type = <<"S">> THEN MessagesOf(Lookup(universe, type)) ELSE U256Values \ {DUndefined}

\* the fields of a struct that are declared with the type 'enum'
EnumFields(universe, type) ==
    { Lookup(universe, type)[i] : i \in 1..Len(Lookup(universe, type)) }
        \cap { f \in StructFieldOptions : f.type = <<"enum">> }

InitEncoder ==
    /\ types \in EncoderUniverses
    /\ typedData = NoDocument
    /\ account = NoAccount
    /\ op = "none"
    /\ arg = NoArg
    /\ result = NoResult
    /\ calls = <<>>

CallEncodeValue ==
    /\ op = "none"
    /\ \E field \in EnumFields(types, <<"S">>), d \in EnumValues, revision \in Revisions :
          /\ arg' = [NoArg EXCEPT !.type = field.type, !.data = d,
                                  !.ctx = Context(<<"S">>, <<field.name>>),
                                  !.revision = revision]
          /\ result' = encodeValue(types, field.type, d, Context(<<"S">>, <<field.name>>),
                                   revision)
    /\ op' = "encodeValue"
    /\ UNCHANGED <<types, typedData, account, calls>>

CallEncodeData ==
    /\ op = "none"
    /\ \E type \in EncodedTypes, revision \in Revisions :
          \E d \in DataOf(types, type) :
              /\ arg' = [NoArg EXCEPT !.type = type, !.data = d, !.revision = revision]
              /\ result' = encodeData(types, type, d, revision)
    /\ op' = "encodeData"
    /\ UNCHANGED <<types, typedData, account, calls>>

CallGetStructHash ==
    /\ op = "none"
    /\ \E revision \in Revisions, d \in DataOf(types, <<"S">>) :
          /\ arg' = [NoArg EXCEPT !.type = <<"S">>, !.data = d, !.revision = revision]
          /\ result' = getStructHash(types, <<"S">>, d, revision)
    /\ op' = "getStructHash"
    /\ UNCHANGED <<types, typedData, account, calls>>

NextEncoder == CallEncodeValue \/ CallEncodeData \/ CallGetStructHash

SpecEncoder == InitEncoder /\ [][NextEncoder]_vars

----------------------------------------------------------------------------
(* Properties of getMessageHash and identifyRevision, under Spec *)

\* the types map of the document declares this type name
Declares(name) == typedData.hasTypes /\ \E i \in DOMAIN types : types[i].name = name

DomainRevision == Property(typedData.domain, "revision")

\* the condition stated for the Active revision
ActiveSelected == Declares("StarknetDomain") /\ DomainRevision = RevisionValue(ACTIVE)

\* the condition stated for the Legacy revision; absent is undefined or null
LegacySelected ==
    /\ Declares("StarkNetDomain")
    /\ DomainRevision.k \in {"undefined", "null"} \/ DomainRevision = RevisionValue(LEGACY)

SchemaMismatch == Error("SchemaMismatch", <<>>)

\* C1: for a document that passes validation, getMessageHash returns H over
\* [shortString('StarkNet Message'), structHash(D, domain), account,
\* structHash(primaryType, message)] in that order, H and D being those of the
\* one revision identified (Active: Poseidon on elements and 'StarknetDomain',
\* Legacy: Pedersen on elements and 'StarkNetDomain'), both struct hashes under
\* that revision; a struct hash that throws makes the call throw the same.
C1_MessageHash ==
    (op = "getMessageHash" /\ validateTypedData(Document(types, typedData)).f = "true") =>
        LET revision == IF ActiveSelected THEN ACTIVE ELSE LEGACY
            H == IF ActiveSelected THEN "poseidonOnElements" ELSE "pedersenOnElements"
            D == IF ActiveSelected THEN "StarknetDomain" ELSE "StarkNetDomain"
            domainHash == getStructHash(types, <<D>>, typedData.domain, revision)
            messageHash == getStructHash(types, typedData.primaryType, typedData.message,
                                         revision)
        IN /\ ActiveSelected # LegacySelected
           /\ result = IF IsError(domainHash) THEN domainHash
                       ELSE IF IsError(messageHash) THEN messageHash
                       ELSE Val(H, <<>>, <<>>,
                                << encodeShortString("StarkNet Message"), domainHash,
                                   account, messageHash >>)

\* C1 witness: a document declaring both domain type names is hashed under the
\* Active revision
C1_Witness ==
    /\ op = "getMessageHash"
    /\ Declares("StarknetDomain") /\ Declares("StarkNetDomain")
    /\ result.f = "poseidonOnElements"
    /\ Len(result.x) = 4
    /\ result.x[3] = account

MessageMissing == typedData.message.k \in {"undefined", "null"}
MessageEmpty == typedData.message.k = "object" /\ typedData.message.keys = <<>>
PrimaryTypeMissingOrEmpty == typedData.primaryType \in {Undefined, <<>>}
TypesMissing == ~typedData.hasTypes
TypesEmpty == typedData.hasTypes /\ types = <<>>
RevisionUnresolved == ~ActiveSelected /\ ~LegacySelected
NoStructHash == \A i \in DOMAIN calls : calls[i] \notin {"getStructHash", "hashMethod"}

\* C2: getMessageHash fails with the schema-mismatch error whenever message,
\* primaryType or types is missing or empty or no revision can be resolved for
\* the document, computing no struct hash, returning no digest and raising no
\* other kind of error.
C2_SchemaMismatch ==
    ( /\ op = "getMessageHash"
      /\ \/ MessageMissing \/ MessageEmpty
         \/ PrimaryTypeMissingOrEmpty
         \/ TypesMissing \/ TypesEmpty
         \/ RevisionUnresolved ) =>
        result = SchemaMismatch /\ NoStructHash

\* C4: for a document with a types map and a domain object, identifyRevision
\* selects Active iff types has 'StarknetDomain' and domain.revision is the
\* Active value, Legacy iff types has 'StarkNetDomain' and domain.revision is
\* absent or the Legacy value; the two never hold together; in every other
\* case the revision is undefined, and getMessageHash throws the
\* schema-mismatch error.
C4_RevisionSelection ==
    (typedData.hasTypes /\ typedData.domain.k = "object") =>
        /\ ~(ActiveSelected /\ LegacySelected)
        /\ op = "identifyRevision" =>
              /\ result = OkString(<<ACTIVE>>) <=> ActiveSelected
              /\ result = OkString(<<LEGACY>>) <=> LegacySelected
              /\ RevisionUnresolved => result = Val("undefined", <<>>, <<>>, <<>>)
        /\ (op = "getMessageHash" /\ RevisionUnresolved) => result = SchemaMismatch

\* C4 witness: both domain type names are declared, the domain has no revision,
\* and Legacy is selected
C4_Witness ==
    /\ op = "identifyRevision"
    /\ Declares("StarknetDomain") /\ Declares("StarkNetDomain")
    /\ DomainRevision.k = "undefined"
    /\ typedData.domain.k = "object"
    /\ result = OkString(<<LEGACY>>)

----------------------------------------------------------------------------
(* Properties of getDependencies and encodeType, under SpecResolver *)

\* the declared types the fields of a declared type refer to, in field order
References(universe, name, revision) ==
    LET fields == Lookup(universe, name)
        refs == [i \in 1..Len(fields) |->
                    DependencyName(fields[i].type,
                                   IF fields[i].contains = Undefined THEN <<>>
                                   ELSE fields[i].contains,
                                   revision)]
    IN SelectSeq(refs, LAMBDA r : Has(universe, r))

RECURSIVE Discover(_, _, _, _)
\* the declared types in the order a depth-first walk first meets them, with
\* one list of the types seen for the whole walk
Discover(universe, stack, seen, revision) ==
    IF stack = <<>> THEN seen
    ELSE IF Includes(seen, Head(stack)) \/ ~Has(universe, Head(stack))
    THEN Discover(universe, Tail(stack), seen, revision)
    ELSE Discover(universe, References(universe, Head(stack), revision) \o Tail(stack),
                  Append(seen, Head(stack)), revision)

RECURSIVE Closure(_, _, _)
\* the names in `names` and the declared types they transitively refer to
Closure(universe, names, revision) ==
    LET more == names \cup
                UNION { { References(universe, n, revision)[i] :
                            i \in 1..Len(References(universe, n, revision)) } :
                        n \in { m \in names : Has(universe, m) } }
    IN IF more = names THEN names ELSE Closure(universe, more, revision)

\* the declared types `name` transitively refers to, itself only on a cycle
ReferredFrom(universe, name, revision) ==
    LET refs == References(universe, name, revision)
    IN Closure(universe, { refs[i] : i \in 1..Len(refs) }, revision)

\* some type reached from `name` (itself included) refers to itself, directly
\* or through other types
CycleReachable(universe, name, revision) ==
    \E n \in Closure(universe, {name}, revision) :
        Has(universe, n) /\ n \in ReferredFrom(universe, n, revision)

NoDuplicates(list) == \A i, j \in 1..Len(list) : list[i] = list[j] => i = j

\* the name a query stands for: without its array mark and, under Active,
\* `contains` for the tag 'enum' and the inside of a parenthesised tuple
QueriedName ==
    DependencyName(arg.type, IF arg.contains = Undefined THEN <<>> ELSE arg.contains,
                   arg.revision)

\* C5 as stated: the list getDependencies returns contains no name twice and
\* has the queried type (the name the query stands for) as its first element,
\* whatever the query (a struct name, 'T*', a primitive, 'enum', a tuple) and
\* the initial accumulator.
C5_Original ==
    (op = "getDependencies" /\ ~IsError(result)) =>
        /\ NoDuplicates(result.l)
        /\ Len(result.l) >= 1
        /\ result.l[1] = QueriedName

\* C5 as amended: when the name the query stands for is declared and not in
\* the initial accumulator, and no cycle of references is reachable from it,
\* getDependencies returns a list with no name twice that has that name first,
\* followed by every other declared type transitively referenced, in
\* first-discovery order; when a cycle is reachable the call returns no list
\* (it exhausts the call stack); when the name is not declared or is in the
\* accumulator, the accumulator is returned as it is.
C5_Amended ==
    op = "getDependencies" =>
        IF Includes(arg.dependencies, QueriedName) \/ ~Has(types, QueriedName)
        THEN result = OkList(arg.dependencies)
        ELSE IF CycleReachable(types, QueriedName, arg.revision)
        THEN result = StackOverflow
        ELSE /\ ~IsError(result)
             /\ NoDuplicates(result.l)
             /\ result.l[1] = QueriedName
             /\ { result.l[i] : i \in 1..Len(result.l) }
                    = { n \in Closure(types, {QueriedName}, arg.revision) : Has(types, n) }
             /\ result.l = Discover(types, <<QueriedName>>, <<>>, arg.revision)

\* C5 witness: A refers to B and then to C, B refers to C, and the query of A
\* lists C once, where B leads to it
C5_Witness ==
    /\ op = "getDependencies"
    /\ arg.type = <<"A">>
    /\ arg.dependencies = << <<"B">>, <<"C">>, <<"C">> >>
    /\ References(types, <<"A">>, arg.revision) = << <<"B">>, <<"C">> >>
    /\ References(types, <<"B">>, arg.revision) = << <<"C">> >>
    /\ result = OkList(<< <<"A">>, <<"B">>, <<"C">> >>)

\* C6: on a universe in which a type refers to itself, directly or through a
\* cycle, getDependencies, encodeType and getTypeHash return: no call ends by
\* exhausting the call stack.
C6_Terminates ==
    op \in {"getDependencies", "encodeType", "getTypeHash"} => result # StackOverflow

\* the fields encodeType renders for a type: the preset's under Active
RenderedFields(name, revision) ==
    IF revision = ACTIVE /\ Has(presetTypes, name) THEN Lookup(presetTypes, name)
    ELSE Lookup(types, name)

\* the universe encodeType resolves against, by what it holds
RenderedUniverse(revision) ==
    IF revision = ACTIVE
    THEN SelectSeq(types, LAMBDA e : ~Has(presetTypes, <<e.name>>)) \o presetTypes
    ELSE types

Quoted(s, revision) == IF revision = ACTIVE THEN <<"\"">> \o s \o <<"\"">> ELSE s

\* name:type of a field, the type of an enum field under Active its `contains`
RenderedField(f, revision) ==
    Quoted(<<f.name>>, revision) \o <<":">>
    \o Quoted(IF revision = ACTIVE /\ f.type = <<"enum">> THEN f.contains ELSE f.type,
              revision)

\* Name(field,field,...) with the fields in declaration order
RenderedBlock(name, revision) ==
    LET fields == RenderedFields(name, revision)
    IN Quoted(name, revision) \o <<"(">>
       \o Join([i \in 1..Len(fields) |-> RenderedField(fields[i], revision)], ",")
       \o <<")">>

\* the primary type's block, then the blocks of the other types it refers to
\* in ascending order of their names
RenderedType(primary, revision) ==
    LET universe == RenderedUniverse(revision)
        others == { n \in Closure(universe, {primary}, revision) :
                        Has(universe, n) /\ n # primary }
        sorted == SelectSeq([i \in 1..Len(SortedNames) |-> <<SortedNames[i]>>],
                            LAMBDA n : n \in others)
    IN RenderedBlock(primary, revision)
       \o Concat([i \in 1..Len(sorted) |-> RenderedBlock(sorted[i], revision)])

\* the universe with its declarations in another order
Reordered(universe, p) == [i \in 1..Len(universe) |-> universe[p[i]]]

Orders(n) == { p \in [1..n -> 1..n] : \A i, j \in 1..n : p[i] = p[j] => i = j }

\* C7: what encodeType returns is the primary type's block followed, with no
\* separator, by the blocks of its other dependencies in ascending order of
\* their names, the primary first also when it sorts after a dependency, the
\* fields of each block in declaration order; it is the empty string when the
\* queried type (the name the query stands for, as in C5) is neither declared
\* nor, under Active, a preset; and the outcome is the same for every order of
\* the declarations in the universe.
C7_EncodeType ==
    op = "encodeType" =>
        LET queried == DependencyName(arg.type, <<>>, arg.revision)
        IN /\ ~IsError(result) =>
                 result = OkString(IF Has(RenderedUniverse(arg.revision), queried)
                                   THEN RenderedType(queried, arg.revision)
                                   ELSE <<>>)
           /\ ~Has(RenderedUniverse(arg.revision), queried) => result = OkString(<<>>)
           /\ \A p \in Orders(Len(types)) :
                 encodeType(Reordered(types, p), arg.type, arg.revision) = result

\* C7 witness: C, declared last, refers to B and then to A in fields named
\* 'to' and 'from'; its block comes first, then A's, then B's
C7_Witness ==
    /\ op = "encodeType"
    /\ arg.type = <<"C">>
    /\ arg.revision = LEGACY
    /\ result = OkString(<< "C", "(", "to", ":", "B", "*", ",", "from", ":", "A", ")",
                            "A", "(", ")", "B", "(", ")" >>)

----------------------------------------------------------------------------
(* Properties of encodeValue, encodeData and getStructHash, under SpecEncoder *)

\* the fields of the struct a call encodes, and the value the message has for
\* the i-th of them
EncodedFields == Lookup(types, arg.type)
ValueAt(i) == Property(arg.data, EncodedFields[i].name)

\* a field the message has no value for, or null for without being an enum
Lacks(i) ==
    \/ ValueAt(i).k = "undefined"
    \/ ValueAt(i).k = "null" /\ EncodedFields[i].type # <<"enum">>

\* the value of the i-th field is one its type encodes, or null for an enum
Encodable(i) ==
    \/ ValueAt(i).k = "null" /\ EncodedFields[i].type = <<"enum">>
    \/ ~Lacks(i) /\ ~IsError(encodeValue(types, EncodedFields[i].type, ValueAt(i),
                                          Context(arg.type, <<EncodedFields[i].name>>),
                                          arg.revision))

\* C3: encoding the struct S, under both revisions: when a field has no value
\* (undefined), or null without being declared 'enum', and the fields declared
\* before it have values that encode, the missing-field error naming that
\* field is thrown; and a message whose fields all have values that encode,
\* but for null in fields declared 'enum', is encoded without an error.
C3_MissingField ==
    (op \in {"encodeData", "getStructHash"} /\ arg.type = <<"S">>) =>
        /\ \A i \in 1..Len(EncodedFields) :
              (Lacks(i) /\ \A j \in 1..(i - 1) : Encodable(j)) =>
                  result = Error("MissingField", <<EncodedFields[i].name>>)
        /\ (\A i \in 1..Len(EncodedFields) : Encodable(i)) => ~IsError(result)

\* the struct whose field the context names, with that field declared first
FieldFirst(universe, ctx) ==
    [i \in 1..Len(universe) |->
        IF <<universe[i].name>> = ctx.parent
        THEN Entry(universe[i].name,
                   SelectSeq(universe[i].fields, LAMBDA f : <<f.name>> = ctx.key)
                   \o SelectSeq(universe[i].fields, LAMBDA f : <<f.name>> # ctx.key))
        ELSE universe[i]]

\* the field of the struct S that a call of encodeValue encodes the value of
OwnField ==
    Lookup(types, arg.ctx.parent)[CHOOSE i \in 1..Len(Lookup(types, arg.ctx.parent)) :
                                      <<Lookup(types, arg.ctx.parent)[i].name>> = arg.ctx.key]

\* the variants of the holder the field's own `contains` names
OwnVariants == Lookup(types, OwnField.contains)

\* the zero-based position of the variant an enum value names
VariantIndex == (CHOOSE i \in 1..Len(OwnVariants) : OwnVariants[i].name = arg.data.keys[1]) - 1

\* the subtype slots of that variant's tuple type
Slots == Split(Inner(OwnVariants[VariantIndex + 1].type))

\* one encoded payload element for each slot that is not empty, in order
PayloadElements ==
    LET filled == SelectSeq([i \in 1..Len(Slots) |-> i], LAMBDA i : Slots[i] # <<>>)
    IN [k \in 1..Len(filled) |->
           Second(encodeValue(types, Slots[filled[k]], Element(arg.data.items[1], filled[k] - 1),
                              NoContext, arg.revision))]

\* C8: under Active, encoding the enum value {variantName: payload} of the
\* first field of a struct gives the element hash of [variantIndex,
\* ...encodedPayloadElements], variantIndex the zero-based position of the
\* variant in the holder, with one element for each subtype slot that is not
\* empty: the variant '()' hashes the one element [variantIndex].
C8_EnumEncoding ==
    ( /\ op = "encodeValue"
      /\ arg.revision = ACTIVE
      /\ arg.data.k = "object"
      /\ OwnField = Lookup(types, arg.ctx.parent)[1] ) =>
        result = Pair(<<"enum">>,
                      hashMethod(ACTIVE, <<NumberElement(VariantIndex)>> \o PayloadElements))

\* C9: under Active, the value of a field declared 'enum' is encoded against
\* the variant holder that the field's own `contains` names, whatever the
\* position of the field in its struct: the encoding is the one the value
\* has when the field is the first of the struct.
C9_VariantHolder ==
    ( /\ op = "encodeValue"
      /\ arg.revision = ACTIVE
      /\ arg.data.k = "object" ) =>
        result = encodeValue(FieldFirst(types, arg.ctx), arg.type, arg.data, arg.ctx, ACTIVE)

\* C10: under Active, the fields whose values encodeData encodes for a struct
\* are the fields encodeType renders into the signature that the type hash at
\* the head of the encoded values is taken of, also for a struct that the
\* universe declares under a preset name.
C10_SameDeclaration ==
    (op = "encodeData" /\ arg.revision = ACTIVE /\ ~IsError(result)) =>
        LET rendered == RenderedBlock(arg.type, ACTIVE)
            fields == RenderedFields(arg.type, ACTIVE)
        IN /\ result.x[1] = getTypeHash(types, arg.type, ACTIVE)
           /\ SubSeq(encodeType(types, arg.type, ACTIVE).s, 1, Len(rendered)) = rendered
           /\ result.l = << <<"felt">> >> \o [i \in 1..Len(fields) |-> fields[i].type]

=============================================================================
